---- MODULE Spec2Model ----
(***************************************************************************)
(* Model of job_notif.py, the DaVinci Resolve Deliver hook that posts a    *)
(* render job summary to Slack and to the macOS notification centre.       *)
(*                                                                         *)
(* Text is modelled as a sequence of characters, so that trimming,         *)
(* joining and bracketing are computed and not assumed.  A character is a  *)
(* one-character string; a character outside ASCII is written by its code  *)
(* point, e.g. "U+2192" for the rightwards arrow.                          *)
(***************************************************************************)
EXTENDS Integers, Sequences, FiniteSets, TLC

\* ------------------------------------------------------------------------
\* Bounds of the model
\* ------------------------------------------------------------------------
\* Number of runs of the script in one behaviour.
MaxRuns == 2

\* ------------------------------------------------------------------------
\* String literals of the program and of the inputs
\* ------------------------------------------------------------------------
S_Empty == << >>
S_Blank == <<" ", " ">>
S_Unknown == <<"U","n","k","n","o","w","n">>
S_unknownProject == <<"(","u","n","k","n","o","w","n",")">>
S_Complete == <<"C","o","m","p","l","e","t","e">>
S_Rendering == <<"R","e","n","d","e","r","i","n","g">>
S_Failed == <<"F","a","i","l","e","d">>
S_MyProj == <<"M","y","P","r","o","j">>
S_Main == <<"M","a","i","n">>
S_Alt == <<"A","l","t">>
S_outmov == <<"o","u","t",".","m","o","v">>
S_bmov == <<"b",".","m","o","v">>
S_cmov == <<"c",".","m","o","v">>
S_CodecError == <<"C","o","d","e","c"," ","e","r","r","o","r">>
S_CodecErrorPadded == <<" ","C","o","d","e","c"," ","e","r","r","o","r"," ">>
S_None == <<"N","o","n","e">>
S_42 == <<"4","2">>
S_TemplateToken == <<"x","o","x","b","-","R","E","P","L","A","C","E","_","W","I","T","H","_","Y","O","U","R","_","T","O","K","E","N">>
S_TemplateChannel == <<"C","X","X","X","X","X","X","X","X">>
S_ErrorOpen == <<"(","E","r","r","o","r",":"," ">>
S_Title == <<"D","a","V","i","n","c","i"," ","R","e","s","o","l","v","e">>
S_xoxb == <<"x","o","x","b","-","1">>
S_xoxbPadded == <<" ","x","o","x","b","-","1"," ">>
S_C01 == <<"C","0","1">>

\* The arrow of the "-> outname" segment as the source file spells it: the
\* three characters U+00E2 U+2020 U+2019 (bytes c3 a2 e2 80 a0 e2 80 99).
ArrowInSource == <<"U+00E2", "U+2020", "U+2019">>

\* The rightwards arrow U+2192.
RightArrow == <<"U+2192">>

\* ------------------------------------------------------------------------
\* Python values: None, str, int, dict (insertion-ordered key/value pairs)
\* and list.
\* ------------------------------------------------------------------------
None == [t |-> "None", v |-> << >>]
PStr(s) == [t |-> "str", v |-> s]
PInt(n) == [t |-> "int", v |-> n]
PDict(pairs) == [t |-> "dict", v |-> pairs]
PList(items) == [t |-> "list", v |-> items]
\* A str that holds a directory path; the path is kept as one token.
PPath(p) == [t |-> "path", v |-> p]

IsDict(x) == x.t = "dict"

\* bool(x)
Truthy(x) ==
  CASE x.t = "None" -> FALSE
    [] x.t = "str" -> Len(x.v) > 0
    [] x.t = "int" -> x.v # 0
    [] x.t = "dict" -> Len(x.v) > 0
    [] x.t = "list" -> Len(x.v) > 0
    [] x.t = "path" -> TRUE

\* a == b
PyEq(a, b) == a.t = b.t /\ a.v = b.v

\* a or b
PyOr(a, b) == IF Truthy(a) THEN a ELSE b

\* d.get(k) and d.get(k, default) of a dict: the value of the first pair
\* whose key is k.
RECURSIVE Lookup(_, _, _)
Lookup(pairs, k, default) ==
  IF pairs = << >> THEN default
  ELSE IF Head(pairs)[1] = k THEN Head(pairs)[2]
  ELSE Lookup(Tail(pairs), k, default)

DictGetDefault(d, k, default) == Lookup(d.v, k, default)
DictGet(d, k) == DictGetDefault(d, k, None)

DigitChar(d) ==
  CASE d = 0 -> "0" [] d = 1 -> "1" [] d = 2 -> "2" [] d = 3 -> "3"
    [] d = 4 -> "4" [] d = 5 -> "5" [] d = 6 -> "6" [] d = 7 -> "7"
    [] d = 8 -> "8" [] d = 9 -> "9"

RECURSIVE Digits(_)
Digits(n) == IF n < 10 THEN <<DigitChar(n)>> ELSE Digits(n \div 10) \o <<DigitChar(n % 10)>>

KeyChars(k) ==
  CASE k = "Status" -> <<"S","t","a","t","u","s">>
    [] k = "status" -> <<"s","t","a","t","u","s">>
    [] k = "JobId" -> <<"J","o","b","I","d">>
    [] k = "TimelineName" -> <<"T","i","m","e","l","i","n","e","N","a","m","e">>
    [] k = "Timeline" -> <<"T","i","m","e","l","i","n","e">>
    [] k = "OutputFilename" -> <<"O","u","t","p","u","t","F","i","l","e","n","a","m","e">>
    [] k = "FileName" -> <<"F","i","l","e","N","a","m","e">>
    [] k = "CustomName" -> <<"C","u","s","t","o","m","N","a","m","e">>
    [] k = "JobStatus" -> <<"J","o","b","S","t","a","t","u","s">>

\* repr(x) of a scalar, as it appears inside the str() of a dict.
ReprScalar(x) ==
  CASE x.t = "None" -> S_None
    [] x.t = "str" -> <<"'">> \o x.v \o <<"'">>
    [] x.t = "int" -> Digits(x.v)
    [] OTHER -> <<"?">>

RECURSIVE ReprPairs(_)
ReprPairs(pairs) ==
  IF pairs = << >> THEN << >>
  ELSE <<"'">> \o KeyChars(Head(pairs)[1]) \o <<"'", ":", " ">> \o ReprScalar(Head(pairs)[2])
       \o (IF Tail(pairs) = << >> THEN << >> ELSE <<",", " ">> \o ReprPairs(Tail(pairs)))

\* str(x)
PyStr(x) ==
  CASE x.t = "None" -> S_None
    [] x.t = "str" -> x.v
    [] x.t = "int" -> Digits(x.v)
    [] x.t = "dict" -> <<"{">> \o ReprPairs(x.v) \o <<"}">>
    [] x.t = "list" -> <<"[", "]">>
    [] x.t = "path" -> <<x.v>>

Whitespace == {" ", "\t", "\n"}

RECURSIVE LStrip(_)
LStrip(s) == IF s # << >> /\ Head(s) \in Whitespace THEN LStrip(Tail(s)) ELSE s

RECURSIVE RStrip(_)
RStrip(s) ==
  IF s # << >> /\ s[Len(s)] \in Whitespace THEN RStrip(SubSeq(s, 1, Len(s) - 1)) ELSE s

\* s.strip()
Strip(s) == RStrip(LStrip(s))

\* sep.join(parts)
RECURSIVE Join(_, _)
Join(sep, parts) ==
  IF parts = << >> THEN << >>
  ELSE IF Len(parts) = 1 THEN parts[1]
  ELSE parts[1] \o sep \o Join(sep, Tail(parts))

\* s.replace('"', '\\"')
RECURSIVE EscapeQuotes(_)
EscapeQuotes(s) ==
  IF s = << >> THEN << >>
  ELSE (IF Head(s) = "\"" THEN <<"\\", "\"">> ELSE <<Head(s)>>) \o EscapeQuotes(Tail(s))

\* ------------------------------------------------------------------------
\* Message builder
\* ------------------------------------------------------------------------
pick_status_ignores_global(status_global, detailed_status) ==
  LET s == IF IsDict(detailed_status)
           THEN PyOr(DictGet(detailed_status, "Status"), DictGet(detailed_status, "status"))
           ELSE None
  IN IF IsDict(detailed_status) /\ Truthy(s) THEN PyStr(s)
     ELSE IF Truthy(detailed_status) THEN PyStr(detailed_status)
     ELSE IF Truthy(status_global) THEN PyStr(status_global)
     ELSE S_Unknown

pick_status(status_global, detailed_status) ==
  LET s == IF IsDict(detailed_status)
           THEN PyOr(DictGet(detailed_status, "Status"), DictGet(detailed_status, "status"))
           ELSE None
  IN IF Truthy(status_global) THEN PyStr(status_global)
     ELSE IF IsDict(detailed_status) /\ Truthy(s) THEN PyStr(s)
     ELSE IF Truthy(detailed_status) THEN PyStr(detailed_status)
     ELSE S_Unknown

\* timeline, lines 232-236
TimelineOf(job_details) ==
  IF IsDict(job_details)
  THEN PyOr(PyOr(DictGet(job_details, "TimelineName"), DictGet(job_details, "Timeline")), None)
  ELSE None

\* outname, lines 233-242
OutnameOf(job_details) ==
  IF IsDict(job_details)
  THEN PyOr(PyOr(PyOr(DictGet(job_details, "OutputFilename"), DictGet(job_details, "FileName")),
                 DictGet(job_details, "CustomName")), None)
  ELSE None

build_slack_message(project_name, status_global, error_global, job_details, detailed_status) ==
  LET st == pick_status(status_global, detailed_status)
      timeline == TimelineOf(job_details)
      outname == OutnameOf(job_details)
      parts == <<st>>
          \o (IF Truthy(project_name) THEN << <<"[">> \o PyStr(project_name) \o <<"]">> >> ELSE << >>)
          \o (IF Truthy(timeline) THEN <<PyStr(timeline)>> ELSE << >>)
          \o (IF Truthy(outname) THEN <<ArrowInSource \o <<" ">> \o PyStr(outname)>> ELSE << >>)
          \o (IF Truthy(error_global)
              THEN <<S_ErrorOpen \o Strip(PyStr(error_global)) \o <<")">> >> ELSE << >>)
  IN Join(<<" ">>, parts)

\* ------------------------------------------------------------------------
\* Files and directories
\* ------------------------------------------------------------------------
\* os.path.expanduser of the directories that occur.
ExpandUser(p) ==
  CASE p = "~/Desktop" -> "/Users/u/Desktop"
    [] p = "~/Desktop/resolve_slack_deliver_{{date}}.log"
         -> "/Users/u/Desktop/resolve_slack_deliver_{{date}}.log"

DesktopDir == ExpandUser("~/Desktop")

LogDirs == {ExpandUser("~/Desktop"),
            ExpandUser("~/Desktop/resolve_slack_deliver_{{date}}.log")}

\* The directories os.makedirs(d) leaves in existence, among LogDirs.
WithParents(d) ==
  IF d = ExpandUser("~/Desktop/resolve_slack_deliver_{{date}}.log")
  THEN {d, DesktopDir} ELSE {d}

\* The file name of the log, stamped with the date of the run.
LogFileName == "resolve_slack_deliver_<date>.log"

\* LOG_PATH before the configuration is loaded, line 42.
DefaultLogPath == [dir |-> ExpandUser("~/Desktop"), name |-> LogFileName]

build_log_path(cfg) ==
  LET given == DictGetDefault(cfg, "log_directory", PPath("~/Desktop"))
      isStr == given.t \in {"str", "path"}
      nonBlank == given.t = "path" \/ (given.t = "str" /\ Strip(given.v) # << >>)
      base_dir == IF isStr /\ nonBlank THEN given.v ELSE "~/Desktop"
  IN [dir |-> ExpandUser(base_dir), name |-> LogFileName]

\* The content of the configuration file.  "blank" is an empty or
\* whitespace-only file, "invalid" is text json.loads rejects (such as a
\* truncated write), "array" is valid JSON whose root is no object.
AbsentFile == [k |-> "absent", obj |-> << >>]
BlankFile == [k |-> "blank", obj |-> << >>]
InvalidFile == [k |-> "invalid", obj |-> << >>]
ArrayFile == [k |-> "array", obj |-> << >>]
ObjectFile(pairs) == [k |-> "object", obj |-> pairs]

\* lines 62-66
template ==
  << <<"slack_token", PStr(S_TemplateToken)>>,
     <<"channel_name", PStr(S_TemplateChannel)>>,
     <<"log_directory", PPath("~/Desktop/resolve_slack_deliver_{{date}}.log")>> >>

\* A key the JSON object does not have.
Missing == [t |-> "missing", v |-> << >>]

Cfg(token, channel, logdir) ==
  (IF token.t = "missing" THEN << >> ELSE << <<"slack_token", token>> >>)
  \o (IF channel.t = "missing" THEN << >> ELSE << <<"channel_name", channel>> >>)
  \o (IF logdir.t = "missing" THEN << >> ELSE << <<"log_directory", logdir>> >>)

\* Configuration files a user may leave at CONFIG_PATH.  The template is
\* not among them: a file that holds the template was written by a run.
UserConfigs ==
  {BlankFile, InvalidFile, ArrayFile}
  \cup {ObjectFile(Cfg(tk, PStr(S_C01), PPath("~/Desktop"))) :
          tk \in {Missing, PStr(S_Empty), PStr(S_Blank), PStr(S_xoxb), PStr(S_xoxbPadded)}}
  \cup {ObjectFile(Cfg(PStr(S_xoxb), ch, PStr(S_Blank))) :
          ch \in {Missing, PStr(S_Empty), PStr(S_Blank)}}

\* ------------------------------------------------------------------------
\* State
\* ------------------------------------------------------------------------
VARIABLES
  pc,              \* where the run stands in main()
  runs,            \* number of runs started
  cfgFile,         \* content of the file at CONFIG_PATH
  dirs,            \* the directories of LogDirs that exist
  logs,            \* the log file of each directory: per line, the run that wrote it
  LOG_PATH,        \* global LOG_PATH
  slack_token,     \* global slack_token
  channel_name,    \* global channel_name
  job_id,          \* main's job_id, status_global, error_global
  status_global,
  error_global,
  project_name,    \* main's project_name, detailed_status, job_details
  detailed_status,
  job_details,
  slack_msg,       \* main's slack_msg
  calls,           \* the run so far: its stages, the installer and the sinks
  io,              \* the external calls of the latest step, with their outcomes
  cfgWrites        \* what the run has handed to json.dump for CONFIG_PATH

vars == <<pc, runs, cfgFile, dirs, logs, LOG_PATH, slack_token, channel_name,
          job_id, status_global, error_global, project_name, detailed_status,
          job_details, slack_msg, calls, io, cfgWrites>>

config == <<cfgFile, cfgWrites>>
globals == <<LOG_PATH, slack_token, channel_name>>
trigger == <<job_id, status_global, error_global>>
queried == <<project_name, detailed_status, job_details>>

Ev(f, r) == [f |-> f, r |-> r, arg |-> << >>]
EvArg(f, r, arg) == [f |-> f, r |-> r, arg |-> arg]

log_truncating(l, path, existing, msgs, run) ==
  IF path.dir \in existing
  THEN [l EXCEPT ![path.dir] = [i \in 1..Len(msgs) |-> run]]
  ELSE l

\* log(msg) for each of msgs in turn, lines 47-53: a line is appended to the
\* file at LOG_PATH; a failure to open the file is swallowed.
log(l, path, existing, msgs, run) ==
  IF path.dir \in existing
  THEN [l EXCEPT ![path.dir] = @ \o [i \in 1..Len(msgs) |-> run]]
  ELSE l

\* ------------------------------------------------------------------------
\* Inputs of a run
\* ------------------------------------------------------------------------
\* The globals job, status and error the host injects (None when absent).
Triggers ==
  {[job |-> None, status |-> PStr(S_Complete), error |-> None],
   [job |-> PStr(S_42), status |-> PStr(S_Complete), error |-> None],
   [job |-> PStr(S_42), status |-> None, error |-> PStr(S_CodecErrorPadded)]}

\* Outcome of a host API call: it raises, or returns val.
Raises == [raises |-> TRUE, val |-> None]
Returns(x) == [raises |-> FALSE, val |-> x]

NameOutcomes == {Raises, Returns(PStr(S_MyProj))}

StatusOutcomes ==
  {Raises, Returns(None), Returns(PDict(<< <<"Status", PStr(S_Rendering)>> >>))}

JobMain == PDict(<< <<"JobId", PStr(S_42)>>, <<"TimelineName", PStr(S_Main)>>,
                    <<"OutputFilename", PStr(S_outmov)>> >>)
JobOther == PDict(<< <<"JobId", PStr(<<"7">>)>>, <<"TimelineName", PStr(S_Alt)>> >>)
JobMainAgain == PDict(<< <<"JobId", PStr(S_42)>>, <<"TimelineName", PStr(S_Alt)>> >>)

JobListOutcomes ==
  {Raises, Returns(None), Returns(PList(<<JobOther>>)),
   Returns(PList(<<PStr(S_Main), JobOther, JobMain, JobMainAgain>>))}

\* ------------------------------------------------------------------------
\* Host queries
\* ------------------------------------------------------------------------
\* The scan of lines 202-208: the first record whose JobId equals job_id;
\* an element without .get raises inside the loop and is skipped.
RECURSIVE FirstMatch(_, _)
FirstMatch(job_list, id) ==
  IF job_list = << >> THEN None
  ELSE IF IsDict(Head(job_list)) /\ PyEq(DictGet(Head(job_list), "JobId"), id)
       THEN Head(job_list)
       ELSE FirstMatch(Tail(job_list), id)

get_job_details(listOutcome, id) ==
  IF listOutcome.raises THEN None
  ELSE FirstMatch(PyOr(listOutcome.val, PList(<< >>)).v, id)

get_detailed_status(statusOutcome, id) ==
  IF id.t = "None" THEN None
  ELSE IF statusOutcome.raises THEN None
  ELSE statusOutcome.val

\* ------------------------------------------------------------------------
\* Initial state: the script is about to call main() for the first time
\* ------------------------------------------------------------------------
FreshRun ==
  /\ LOG_PATH' = DefaultLogPath
  /\ slack_token' = S_Empty
  /\ channel_name' = S_Empty
  /\ job_id' = None
  /\ status_global' = None
  /\ error_global' = None
  /\ project_name' = None
  /\ detailed_status' = None
  /\ job_details' = None
  /\ slack_msg' = S_Empty
  /\ calls' = << >>
  /\ io' = << >>
  /\ cfgWrites' = << >>

Init ==
  /\ pc = "main"
  /\ runs = 1
  /\ cfgFile \in {AbsentFile} \cup UserConfigs
  /\ dirs \in {{}, {DesktopDir}}
  /\ logs = [d \in LogDirs |-> << >>]
  /\ LOG_PATH = DefaultLogPath
  /\ slack_token = S_Empty
  /\ channel_name = S_Empty
  /\ job_id = None
  /\ status_global = None
  /\ error_global = None
  /\ project_name = None
  /\ detailed_status = None
  /\ job_details = None
  /\ slack_msg = S_Empty
  /\ calls = << >>
  /\ io = << >>
  /\ cfgWrites = << >>

\* ------------------------------------------------------------------------
\* Config Loader: main lines 302-303, init_from_config
\* ------------------------------------------------------------------------
\* Content of the file when json.dump raises after open(path, "w") created it.
TruncatedFiles == {BlankFile, InvalidFile}

\* lines 302-303
main_after_init(ok) == IF ok THEN "deps" ELSE "Done"

\* ensure_config_exists when no file is at CONFIG_PATH: it writes the
\* template, or fails on the way, and returns False either way.
ConfigAbsent ==
  /\ cfgFile.k = "absent"
  /\ \E w \in {"makedirs_raises", "open_raises", "dump_raises", "written"} :
       /\ CASE w = "written" -> cfgFile' = ObjectFile(template)
            [] w = "dump_raises" -> cfgFile' \in TruncatedFiles
            [] OTHER -> cfgFile' = cfgFile
       /\ cfgWrites' = IF w \in {"dump_raises", "written"}
                       THEN Append(cfgWrites, ObjectFile(template)) ELSE cfgWrites
       /\ logs' = log(logs, LOG_PATH, dirs,
                      IF w = "written"
                      THEN <<"Config created", "Please edit the file and relaunch the render.">>
                      ELSE <<"Config error: failed to create config file", "traceback">>, runs)
       /\ io' = <<Ev("isfile", "False"), Ev("write config", w)>>
  /\ calls' = calls \o <<Ev("init_from_config", "False")>>
  /\ pc' = main_after_init(FALSE)
  /\ UNCHANGED <<runs, dirs, globals, trigger, queried, slack_msg>>

\* load_config raises: the file cannot be read, is blank, is no JSON or is
\* no JSON object.  Caught at line 126.
ConfigUnreadable ==
  /\ cfgFile.k # "absent"
  /\ \E rd \in {"read", "read_raises"} :
       /\ rd = "read_raises" \/ cfgFile.k # "object"
       /\ io' = <<Ev("isfile", "True"), Ev("load_config", IF rd = "read" THEN cfgFile.k ELSE rd)>>
  /\ calls' = calls \o <<Ev("init_from_config", "False")>>
  /\ logs' = log(logs, LOG_PATH, dirs, <<"Config error", "traceback">>, runs)
  /\ pc' = main_after_init(FALSE)
  /\ UNCHANGED <<runs, config, dirs, globals, trigger, queried, slack_msg>>

validate_token_only(token, channel) ==
  IF token = S_Empty THEN "token_empty" ELSE "valid"

validate_rejecting_template(token, channel) ==
  IF token = S_Empty \/ token = S_TemplateToken THEN "token_empty"
  ELSE IF channel = S_Empty \/ channel = S_TemplateChannel THEN "channel_empty"
  ELSE "valid"

\* lines 116-124
validate(token, channel) ==
  IF token = S_Empty THEN "token_empty"
  ELSE IF channel = S_Empty THEN "channel_empty"
  ELSE "valid"

\* load_config returns the object: lines 103-124.
ConfigLoaded ==
  /\ cfgFile.k = "object"
  /\ LET cfg == PDict(cfgFile.obj)
         token == Strip(PyStr(DictGetDefault(cfg, "slack_token", PStr(S_Empty))))
         channel == Strip(PyStr(DictGetDefault(cfg, "channel_name", PStr(S_Empty))))
         path == build_log_path(cfg)
     IN /\ slack_token' = token
        /\ channel_name' = channel
        /\ LOG_PATH' = path
        /\ \E mk \in {"made", "makedirs_raises"} :
             /\ path.dir \in dirs => mk = "made"
             /\ IF mk = "makedirs_raises"
                THEN /\ dirs' = dirs
                     /\ logs' = log(logs, path, dirs,
                                    <<"Config error: cannot create log directory">>, runs)
                     /\ io' = <<Ev("isfile", "True"), Ev("load_config", "object"),
                                Ev("makedirs", mk)>>
                     /\ calls' = calls \o <<Ev("init_from_config", "False")>>
                     /\ pc' = main_after_init(FALSE)
                ELSE LET v == validate(token, channel)
                     IN /\ dirs' = dirs \cup WithParents(path.dir)
                        /\ logs' = log(logs, path, dirs',
                                       CASE v = "token_empty" ->
                                              <<"Config error: 'slack_token' is missing or empty">>
                                         [] v = "channel_empty" ->
                                              <<"Config error: 'channel_name' is missing or empty">>
                                         [] OTHER -> << >>, runs)
                        /\ io' = <<Ev("isfile", "True"), Ev("load_config", "object"),
                                   Ev("validate", v)>>
                        /\ calls' = calls \o <<Ev("init_from_config",
                                                  IF v = "valid" THEN "True" ELSE "False")>>
                        /\ pc' = main_after_init(v = "valid")
  /\ UNCHANGED <<runs, config, trigger, queried, slack_msg>>

InitFromConfig ==
  /\ pc = "main"
  /\ (ConfigAbsent \/ ConfigUnreadable \/ ConfigLoaded)

\* ------------------------------------------------------------------------
\* Dependency Installer: main lines 305-307, ensure_slack_sdk_installed
\* ------------------------------------------------------------------------
sdk_result_ignoring_returncode(o) == o \in {"present", "pip_ok_import_ok", "pip_nonzero"}

\* What ensure_slack_sdk_installed returns, from the outcome of the first
\* import, of pip and of the second import.
sdk_result(o) == o \in {"present", "pip_ok_import_ok"}

main_ignoring_deps(ok) == "start"

\* lines 305-307
main_after_deps(ok) == IF ok THEN "start" ELSE "Done"

\* pip is taken to print to stdout when it succeeds and to stderr when it
\* fails (lines 150-153 log whichever is not blank).
EnsureSlackSdkInstalled ==
  /\ pc = "deps"
  /\ \E o \in {"present", "pip_raises", "pip_nonzero", "pip_ok_import_ok", "pip_ok_import_fails"} :
       LET ok == sdk_result(o)
           events ==
             CASE o = "present" -> <<Ev("import slack_sdk", "ok")>>
               [] o = "pip_raises" -> <<Ev("import slack_sdk", "raises"), Ev("pip", "raises")>>
               [] o = "pip_nonzero" -> <<Ev("import slack_sdk", "raises"), Ev("pip", "nonzero")>>
               [] o = "pip_ok_import_ok" ->
                    <<Ev("import slack_sdk", "raises"), Ev("pip", "zero"), Ev("import slack_sdk", "ok")>>
               [] o = "pip_ok_import_fails" ->
                    <<Ev("import slack_sdk", "raises"), Ev("pip", "zero"),
                      Ev("import slack_sdk", "raises")>>
           lines ==
             CASE o = "present" -> <<"Dependency check: slack_sdk already installed">>
               [] o = "pip_raises" ->
                    <<"Dependency check: slack_sdk missing", "Dependency install: using python",
                      "Dependency install failed", "traceback">>
               [] o = "pip_nonzero" ->
                    <<"Dependency check: slack_sdk missing", "Dependency install: using python",
                      "pip stderr", "Dependency install failed (pip error)">>
               [] o = "pip_ok_import_ok" ->
                    <<"Dependency check: slack_sdk missing", "Dependency install: using python",
                      "pip stdout", "Dependency install: slack_sdk successfully installed">>
               [] o = "pip_ok_import_fails" ->
                    <<"Dependency check: slack_sdk missing", "Dependency install: using python",
                      "pip stdout", "Dependency install failed", "traceback">>
       IN /\ io' = events
          /\ calls' = calls \o (IF o = "present" THEN << >> ELSE <<Ev("pip", "invoked")>>)
                      \o <<Ev("ensure_slack_sdk_installed", IF ok THEN "True" ELSE "False")>>
          /\ logs' = log(logs, LOG_PATH, dirs,
                         lines \o (IF ok THEN << >>
                                   ELSE <<"Fatal: slack_sdk dependency unavailable">>), runs)
          /\ pc' = main_after_deps(ok)
  /\ UNCHANGED <<runs, config, dirs, globals, trigger, queried, slack_msg>>

\* ------------------------------------------------------------------------
\* Host Query: main lines 309-341
\* ------------------------------------------------------------------------
\* Lines 309-316.  socket.gethostname() and platform.platform() stand
\* outside every try of main.
LogStartAndGlobals ==
  /\ pc = "start"
  /\ \/ /\ \E g \in Triggers :
             /\ job_id' = g.job
             /\ status_global' = g.status
             /\ error_global' = g.error
        /\ logs' = log(logs, LOG_PATH, dirs,
                       <<"Deliver hook: start", "Python", "Host", "Config path", "Log path",
                         "Trigger globals">>, runs)
        /\ io' = <<Ev("gethostname", "ok")>>
        /\ calls' = calls \o <<Ev("get_globals", "read")>>
        /\ pc' = "resolve"
     \/ /\ logs' = log(logs, LOG_PATH, dirs, <<"Deliver hook: start", "Python">>, runs)
        /\ io' = <<Ev("gethostname", "raises")>>
        /\ calls' = calls
        /\ pc' = "raised"
        /\ UNCHANGED trigger
  /\ UNCHANGED <<runs, config, dirs, globals, queried, slack_msg>>

\* Lines 318-333: the host handle, the project manager, the current project.
GetCurrentProject ==
  /\ pc = "resolve"
  /\ \E o \in {"no_resolve", "pm_raises", "pm_none", "project_raises", "project_none", "project"} :
       LET events ==
             CASE o = "no_resolve" -> <<Ev("get_resolve", "None")>>
               [] o = "pm_raises" -> <<Ev("get_resolve", "handle"), Ev("GetProjectManager", "raises")>>
               [] o = "pm_none" -> <<Ev("get_resolve", "handle"), Ev("GetProjectManager", "None")>>
               [] o = "project_raises" ->
                    <<Ev("get_resolve", "handle"), Ev("GetProjectManager", "pm"),
                      Ev("GetCurrentProject", "raises")>>
               [] o = "project_none" ->
                    <<Ev("get_resolve", "handle"), Ev("GetProjectManager", "pm"),
                      Ev("GetCurrentProject", "None")>>
               [] o = "project" ->
                    <<Ev("get_resolve", "handle"), Ev("GetProjectManager", "pm"),
                      Ev("GetCurrentProject", "project")>>
           lines ==
             CASE o = "no_resolve" -> <<"Resolve API: could not obtain 'resolve'">>
               [] o \in {"pm_raises", "project_raises"} ->
                    <<"Resolve API: error while getting current project", "traceback">>
               [] o \in {"pm_none", "project_none"} -> <<"Resolve API: no current project">>
               [] OTHER -> << >>
       IN /\ io' = events
          /\ calls' = calls \o <<Ev("get_resolve", IF o = "no_resolve" THEN "None" ELSE "handle")>>
                      \o (IF o = "project" THEN <<Ev("current project", "obtained")>> ELSE << >>)
          /\ logs' = log(logs, LOG_PATH, dirs, lines, runs)
          /\ pc' = IF o = "project" THEN "queries" ELSE "Done"
  /\ UNCHANGED <<runs, config, dirs, globals, trigger, queried, slack_msg>>

\* lines 335-338
name_or_unknown(nameOutcome) ==
  IF nameOutcome.raises THEN PStr(S_unknownProject) ELSE nameOutcome.val

\* Lines 335-341: the project name, the detailed status, the job record.
OptionalQueries ==
  /\ pc = "queries"
  /\ \E nm \in NameOutcomes, ds \in StatusOutcomes, jl \in JobListOutcomes :
       LET outcome(o) == IF o.raises THEN "raises"
                         ELSE IF o.val.t = "list" /\ FirstMatch(o.val.v, job_id).t = "None"
                              THEN "no match"
                         ELSE o.val.t
       IN /\ project_name' = name_or_unknown(nm)
          /\ detailed_status' = get_detailed_status(ds, job_id)
          /\ job_details' = IF job_id.t = "None" THEN None ELSE get_job_details(jl, job_id)
          /\ io' = <<Ev("GetName", outcome(nm))>>
                   \o (IF job_id.t = "None" THEN << >>
                       ELSE <<Ev("GetRenderJobStatus", outcome(ds)),
                              Ev("GetRenderJobList", outcome(jl))>>)
  /\ calls' = calls \o <<Ev("optional queries", "done")>>
  /\ pc' = "build"
  /\ UNCHANGED <<runs, config, dirs, logs, globals, trigger, slack_msg>>

\* ------------------------------------------------------------------------
\* Message Builder: main lines 343-351
\* ------------------------------------------------------------------------
BuildMessage ==
  /\ pc = "build"
  /\ slack_msg' = build_slack_message(project_name, status_global, error_global,
                                      job_details, detailed_status)
  /\ io' = <<EvArg("pick_status", "returned", pick_status(status_global, detailed_status))>>
  /\ calls' = calls \o <<EvArg("build_slack_message", "returned", slack_msg')>>
  /\ logs' = log(logs, LOG_PATH, dirs, <<"Slack message">>, runs)
  /\ pc' = "notify_slack"
  /\ UNCHANGED <<runs, config, dirs, globals, trigger, queried>>

\* ------------------------------------------------------------------------
\* Notifier: main lines 353-356
\* ------------------------------------------------------------------------
\* Whether notify_slack catches the outcome o of its calls: it catches all
\* but an exception of WebClient(token=...), line 270, which stands outside
\* its try blocks.
slack_error_caught(o) == o # "client_raises"

\* notify_slack and the log of line 354.
NotifySlack ==
  /\ pc = "notify_slack"
  /\ \E o \in {"import_raises", "client_raises", "ack_true", "ack_absent", "ack_false",
               "api_error", "post_raises"} :
       LET caught == slack_error_caught(o)
           ok == o \in {"ack_true", "ack_absent"}
           events ==
             CASE o = "import_raises" -> <<Ev("from slack_sdk import", "raises")>>
               [] o = "client_raises" ->
                    <<Ev("from slack_sdk import", "ok"), Ev("WebClient", "raises")>>
               [] OTHER ->
                    <<Ev("from slack_sdk import", "ok"), Ev("WebClient", "client"),
                      [f |-> "chat_postMessage", r |-> o, arg |-> slack_msg,
                       token |-> slack_token, channel |-> channel_name]>>
           lines ==
             CASE o = "import_raises" -> <<"Slack: missing slack_sdk", "traceback">>
               [] o = "api_error" -> <<"SlackApiError">>
               [] o = "post_raises" -> <<"Slack: unexpected error", "traceback">>
               [] OTHER -> << >>
       IN /\ io' = events
          /\ calls' = calls \o <<EvArg("notify_slack", o, slack_msg)>>
          /\ logs' = log(logs, LOG_PATH, dirs,
                         lines \o (IF ~caught THEN << >>
                                   ELSE IF ok THEN <<"Deliver hook: done (Slack OK)">>
                                   ELSE <<"Deliver hook: done (Slack FAILED)">>), runs)
          /\ pc' = IF caught THEN "notify_macos" ELSE "raised"
  /\ UNCHANGED <<runs, config, dirs, globals, trigger, queried, slack_msg>>

\* notify_macos, line 356.
NotifyMacos ==
  /\ pc = "notify_macos"
  /\ \E o \in {"ran", "raises"} :
       /\ io' = <<[f |-> "osascript", r |-> o, arg |-> EscapeQuotes(slack_msg),
                   title |-> EscapeQuotes(S_Title)]>>
       /\ logs' = log(logs, LOG_PATH, dirs,
                      IF o = "raises" THEN <<"macOS notification failed", "traceback">>
                      ELSE << >>, runs)
  /\ calls' = calls \o <<EvArg("notify_macos", "called", slack_msg)>>
  /\ pc' = "Done"
  /\ UNCHANGED <<runs, config, dirs, globals, trigger, queried, slack_msg>>

\* ------------------------------------------------------------------------
\* The guard around main, lines 361-365
\* ------------------------------------------------------------------------
guard_reraises == "escaped"

\* Where a run stands once the guard has handled an exception that left main.
guard_catches == "Done"

MainGuard ==
  /\ pc = "raised"
  /\ logs' = log(logs, LOG_PATH, dirs, <<"Deliver hook: fatal error", "traceback">>, runs)
  /\ io' = << >>
  /\ calls' = calls \o <<Ev("main guard", "caught")>>
  /\ pc' = guard_catches
  /\ UNCHANGED <<runs, config, dirs, globals, trigger, queried, slack_msg>>

\* ------------------------------------------------------------------------
\* The host runs the script again; the user may have edited, replaced or
\* removed the configuration file in between.
\* ------------------------------------------------------------------------
StartRun ==
  /\ pc = "Done"
  /\ runs < MaxRuns
  /\ runs' = runs + 1
  /\ cfgFile' \in {cfgFile, AbsentFile} \cup UserConfigs
  /\ pc' = "main"
  /\ FreshRun
  /\ UNCHANGED <<dirs, logs>>

Next ==
  \/ InitFromConfig
  \/ EnsureSlackSdkInstalled
  \/ LogStartAndGlobals
  \/ GetCurrentProject
  \/ OptionalQueries
  \/ BuildMessage
  \/ NotifySlack
  \/ NotifyMacos
  \/ MainGuard
  \/ StartRun

Spec == Init /\ [][Next]_vars

\* Every call of the script returns: the run is single-threaded and has no
\* loop, so a run that has started takes its next step.
FairSpec == Spec /\ WF_vars(Next)

\* ------------------------------------------------------------------------
\* The message builder on its own: build_slack_message applied to every
\* combination of the inputs below.
\* ------------------------------------------------------------------------
ProjectNames == {None, PStr(S_Empty), PStr(S_MyProj), PStr(S_unknownProject), PInt(0)}

StatusGlobals == {None, PStr(S_Empty), PStr(S_Complete), PStr(S_Blank), PInt(0), PInt(5)}

ErrorGlobals == {None, PStr(S_Empty), PStr(S_CodecError), PStr(S_CodecErrorPadded), PStr(S_Blank)}

JobDetailsValues ==
  {None, PStr(S_Main), PDict(<< >>), JobMain,
   PDict(<< <<"JobId", PStr(S_42)>>, <<"Timeline", PStr(S_Alt)>> >>),
   PDict(<< <<"TimelineName", PStr(S_Empty)>>, <<"Timeline", PStr(S_Alt)>>,
            <<"FileName", PStr(S_bmov)>> >>),
   PDict(<< <<"TimelineName", PStr(S_Main)>>, <<"Timeline", PStr(S_Alt)>>,
            <<"OutputFilename", PStr(S_Empty)>>, <<"CustomName", PStr(S_cmov)>> >>),
   PDict(<< <<"OutputFilename", PStr(S_outmov)>>, <<"FileName", PStr(S_bmov)>>,
            <<"CustomName", PStr(S_cmov)>> >>),
   PDict(<< <<"FileName", None>>, <<"CustomName", PStr(S_cmov)>> >>)}

DetailedStatusValues ==
  {None, PStr(S_Empty), PStr(S_Rendering), PInt(0), PList(<< >>), PDict(<< >>),
   PDict(<< <<"Status", PStr(S_Rendering)>> >>),
   PDict(<< <<"status", PStr(S_Failed)>> >>),
   PDict(<< <<"Status", PStr(S_Empty)>>, <<"status", PStr(S_Failed)>> >>),
   PDict(<< <<"Status", PStr(S_Rendering)>>, <<"status", PStr(S_Failed)>> >>),
   PDict(<< <<"Status", PStr(S_Empty)>> >>),
   PDict(<< <<"JobStatus", PStr(S_Complete)>>, <<"status", None>> >>)}

InitMsg ==
  /\ pc = "build"
  /\ runs = 1
  /\ cfgFile = ObjectFile(Cfg(PStr(S_xoxb), PStr(S_C01), PPath("~/Desktop")))
  /\ dirs = {DesktopDir}
  /\ logs = [d \in LogDirs |-> << >>]
  /\ LOG_PATH = DefaultLogPath
  /\ slack_token = S_xoxb
  /\ channel_name = S_C01
  /\ job_id = None
  /\ status_global \in StatusGlobals
  /\ error_global \in ErrorGlobals
  /\ project_name \in ProjectNames
  /\ detailed_status \in DetailedStatusValues
  /\ job_details \in JobDetailsValues
  /\ slack_msg = S_Empty
  /\ calls = << >>
  /\ io = << >>
  /\ cfgWrites = << >>

NextMsg == BuildMessage

SpecMsg == InitMsg /\ [][NextMsg]_vars

\* ------------------------------------------------------------------------
\* Properties
\* ------------------------------------------------------------------------
Called(f) == \E i \in 1..Len(calls) : calls[i].f = f
CalledWith(f, arg) == \E i \in 1..Len(calls) : calls[i].f = f /\ calls[i].arg = arg
Returned(f, r) == \E i \in 1..Len(calls) : calls[i].f = f /\ calls[i].r = r
Did(f, r) == \E i \in 1..Len(io) : io[i].f = f /\ io[i].r = r
Tried(f) == \E i \in 1..Len(io) : io[i].f = f
Count(f) == Cardinality({i \in 1..Len(calls) : calls[i].f = f})
MessageBuilt == Called("build_slack_message")
SinkAttempted == Called("notify_slack") \/ Called("notify_macos")
IsPrefix(a, b) == Len(a) <= Len(b) /\ SubSeq(b, 1, Len(a)) = a

\* C1: in every run that has built the message, once the run is over
\* notify_macos has been called with the built message, whichever way the
\* post to Slack ended.
C1_LocalNotifyAlwaysAttempted ==
  (pc = "Done" /\ MessageBuilt) => CalledWith("notify_macos", slack_msg)

\* The run in which constructing the client raised: the message was built
\* and handed to notify_slack, and the run is over without notify_macos.
C1_Witness ==
  /\ pc = "Done"
  /\ CalledWith("build_slack_message", slack_msg)
  /\ Returned("notify_slack", "client_raises")
  /\ Returned("main guard", "caught")
  /\ ~Called("notify_macos")

\* The key k is missing from the configuration file f, or its value is
\* empty once trimmed.
MissingOrEmpty(f, k) ==
  /\ f.k # "absent"
  /\ \/ f.k # "object"
     \/ \A i \in 1..Len(f.obj) : f.obj[i][1] # k
     \/ \E i \in 1..Len(f.obj) :
          /\ f.obj[i][1] = k
          /\ f.obj[i][2].t = "str"
          /\ \A j \in 1..Len(f.obj[i][2].v) : f.obj[i][2].v[j] \in Whitespace

\* C2: when slack_token or channel_name is missing from the configuration
\* file or is empty after trimming, init_from_config returns False, the run
\* stops there, and neither notify_slack nor notify_macos is called.
C2_MissingCredentialsAbort ==
  (pc # "main" /\ (MissingOrEmpty(cfgFile, "slack_token") \/ MissingOrEmpty(cfgFile, "channel_name")))
    => /\ pc = "Done"
       /\ calls = <<Ev("init_from_config", "False")>>
       /\ ~SinkAttempted
       /\ ~Tried("chat_postMessage") /\ ~Tried("osascript")

C2_Witness ==
  /\ pc = "Done"
  /\ cfgFile = ObjectFile(Cfg(PStr(S_xoxb), PStr(S_Blank), PStr(S_Blank)))
  /\ Did("validate", "channel_empty")
  /\ calls = <<Ev("init_from_config", "False")>>

\* The template of lines 62-66, spelled out.
TemplateFile ==
  [k |-> "object",
   obj |-> << <<"slack_token", [t |-> "str", v |-> S_TemplateToken]>>,
              <<"channel_name", [t |-> "str", v |-> S_TemplateChannel]>>,
              <<"log_directory",
                [t |-> "path", v |-> "~/Desktop/resolve_slack_deliver_{{date}}.log"]>> >>]

\* C3 as stated: every run that loads the unedited template, the run that
\* wrote it and any later one, ends in Abort with no notification.
C3_TemplateAlwaysRejected ==
  (pc # "main" /\ cfgFile = TemplateFile)
    => /\ pc = "Done"
       /\ calls = <<Ev("init_from_config", "False")>>
       /\ ~SinkAttempted

\* C3 amended: the run that writes the template ends in Abort with no
\* notification and without loading the file; a later run that finds the
\* file unchanged is not stopped by validation, the placeholders being
\* non-empty: init_from_config returns True with the placeholders as token
\* and channel, unless the file cannot be read or the log directory cannot
\* be made.
C3_TemplateRejectedOnlyByCreatingRun ==
  /\ (pc # "main" /\ cfgWrites # << >>)
       => /\ pc = "Done"
          /\ calls = <<Ev("init_from_config", "False")>>
          /\ ~SinkAttempted
          /\ ~Tried("load_config")
  /\ (pc # "main" /\ cfgWrites = << >> /\ cfgFile = TemplateFile)
       => \/ /\ calls[1] = Ev("init_from_config", "True")
             /\ slack_token = S_TemplateToken
             /\ channel_name = S_TemplateChannel
          \/ /\ calls = <<Ev("init_from_config", "False")>>
             /\ Did("load_config", "read_raises") \/ Did("makedirs", "makedirs_raises")
  /\ (cfgFile = TemplateFile /\ Tried("validate")) => Did("validate", "valid")

C3_Witness ==
  /\ runs > 1
  /\ cfgFile = TemplateFile
  /\ cfgWrites = << >>
  /\ Called("notify_macos")

Positions ==
  {"main", "deps", "start", "resolve", "queries", "build", "notify_slack", "notify_macos",
   "raised", "Done"}

\* C4: no exception leaves the run.  Whatever the external calls do, the
\* run is always at a position of the script, an exception that has left
\* main is handled by the guard around it, and the run reaches Done.
C4_NoExceptionEscapes ==
  /\ [](pc \in Positions)
  /\ [][pc = "raised" => (pc' = "Done" /\ calls' = Append(calls, Ev("main guard", "caught")))]_vars
  /\ ((pc # "Done") ~> (pc = "Done"))

C4_Witness ==
  /\ pc = "Done"
  /\ Returned("main guard", "caught")
  /\ Returned("notify_slack", "client_raises")

\* The stage an entry of calls belongs to.
StageOf(f) ==
  CASE f = "init_from_config" -> 1
    [] f \in {"pip", "ensure_slack_sdk_installed"} -> 2
    [] f \in {"get_globals", "get_resolve", "current project", "optional queries"} -> 3
    [] f = "build_slack_message" -> 4
    [] f \in {"notify_slack", "notify_macos"} -> 5
    [] f = "main guard" -> 6

Before(f, r, i) == \E j \in 1..(i - 1) : calls[j].f = f /\ calls[j].r = r

\* C5: the stages run in the order Config Loader, Dependency Installer,
\* Host Query, Message Builder, Notifier, none of them twice; the installer
\* runs only after init_from_config returned True, the host is queried only
\* after ensure_slack_sdk_installed returned True, the message is built and
\* the sinks are called only after a host handle and a current project were
\* obtained; a stage that aborts is the last thing the run does.
C5_StagesInOrder ==
  /\ \A i, j \in 1..Len(calls) : i < j => StageOf(calls[i].f) <= StageOf(calls[j].f)
  /\ \A i, j \in 1..Len(calls) : (i # j /\ calls[i].f = calls[j].f) => FALSE
  /\ \A i \in 1..Len(calls) :
       /\ calls[i].f = "pip" => Before("init_from_config", "True", i)
       /\ StageOf(calls[i].f) = 3 =>
            /\ Before("init_from_config", "True", i)
            /\ Before("ensure_slack_sdk_installed", "True", i)
       /\ StageOf(calls[i].f) \in {4, 5} =>
            /\ Before("get_resolve", "handle", i)
            /\ Before("current project", "obtained", i)
       /\ calls[i].f = "notify_slack" => Before("build_slack_message", "returned", i)
       /\ calls[i].f = "notify_macos" => \E j \in 1..(i - 1) : calls[j].f = "notify_slack"
       /\ \/ calls[i] = Ev("init_from_config", "False")
          \/ calls[i] = Ev("ensure_slack_sdk_installed", "False")
          \/ calls[i] = Ev("get_resolve", "None")
          => (i = Len(calls) /\ pc = "Done")
  /\ (Len(calls) > 0 /\ calls[Len(calls)] = Ev("get_resolve", "handle")) => pc = "Done"

C5_Witness ==
  /\ pc = "Done"
  /\ Returned("init_from_config", "True")
  /\ Returned("pip", "invoked")
  /\ Returned("current project", "obtained")
  /\ Called("build_slack_message")
  /\ Called("notify_slack")
  /\ Called("notify_macos")

\* What build_slack_message has made of its inputs is in slack_msg, and the
\* status it resolved is in io.
Built == pc = "notify_slack" /\ Len(io) = 1 /\ io[1].f = "pick_status"

\* C6: the resolved status is status_global when that is non-empty; else
\* the Status field, else the status field, of a detailed_status that is a
\* record; else the detailed_status itself as a string when there is one;
\* else "Unknown".  It is never empty.
C6_StatusPrecedence ==
  Built =>
    LET st == io[1].arg
        upper == DictGet(detailed_status, "Status")
        lower == DictGet(detailed_status, "status")
        field == IsDict(detailed_status) /\ (Truthy(upper) \/ Truthy(lower))
    IN /\ Truthy(status_global) => st = PyStr(status_global)
       /\ (~Truthy(status_global) /\ IsDict(detailed_status) /\ Truthy(upper))
            => st = PyStr(upper)
       /\ (~Truthy(status_global) /\ IsDict(detailed_status) /\ ~Truthy(upper) /\ Truthy(lower))
            => st = PyStr(lower)
       /\ (~Truthy(status_global) /\ ~field /\ Truthy(detailed_status))
            => st = PyStr(detailed_status)
       /\ (~Truthy(status_global) /\ ~field /\ ~Truthy(detailed_status)) => st = S_Unknown
       /\ st # << >>
       /\ SubSeq(slack_msg, 1, Len(st)) = st

C6_Witness ==
  /\ Built
  /\ status_global = PStr(S_Empty)
  /\ detailed_status = PDict(<< <<"Status", PStr(S_Empty)>>, <<"status", PStr(S_Failed)>> >>)
  /\ io[1].arg = S_Failed

\* The first of the values that is non-empty, None when none is.
RECURSIVE FirstNonEmpty(_)
FirstNonEmpty(values) ==
  IF values = << >> THEN None
  ELSE IF Truthy(Head(values)) THEN Head(values)
  ELSE FirstNonEmpty(Tail(values))

Fields(record, keys) ==
  IF IsDict(record) THEN [i \in 1..Len(keys) |-> DictGet(record, keys[i])] ELSE << >>

\* The message of the claim: the status, [project_name], the timeline name,
\* the rightwards arrow and the output name, (Error: <trimmed error>), each
\* but the status present exactly when its source is non-empty, joined by
\* single spaces.
MessageAsSpecified ==
  LET st == io[1].arg
      timeline == FirstNonEmpty(Fields(job_details, <<"TimelineName", "Timeline">>))
      outname == FirstNonEmpty(Fields(job_details, <<"OutputFilename", "FileName", "CustomName">>))
      segments ==
        <<st>>
        \o (IF Truthy(project_name) THEN << <<"[">> \o PyStr(project_name) \o <<"]">> >> ELSE << >>)
        \o (IF Truthy(timeline) THEN <<PyStr(timeline)>> ELSE << >>)
        \o (IF Truthy(outname) THEN <<RightArrow \o <<" ">> \o PyStr(outname)>> ELSE << >>)
        \o (IF Truthy(error_global)
            THEN <<S_ErrorOpen \o Strip(PyStr(error_global)) \o <<")">> >> ELSE << >>)
  IN Join(<<" ">>, segments)

\* C7: the built message is the space-separated join, in this order, of the
\* resolved status, [project_name], the timeline name, the arrow U+2192 and
\* the output name, and (Error: <trimmed error>), each segment but the
\* status present exactly when its source value is non-empty.
C7_MessageFormat == Built => slack_msg = MessageAsSpecified

\* The scenario of the specification as the code answers it: the message
\* holds U+00E2 U+2020 U+2019 where U+2192 is specified.
C7_Witness ==
  /\ Built
  /\ status_global = PStr(S_Complete)
  /\ project_name = PStr(S_MyProj)
  /\ job_details = JobMain
  /\ error_global = None
  /\ slack_msg = S_Complete \o <<" ", "[">> \o S_MyProj \o <<"]", " ">> \o S_Main
                 \o <<" ", "U+00E2", "U+2020", "U+2019", " ">> \o S_outmov

\* The scenario of the specification: status Complete, project MyProj,
\* timeline Main, output out.mov, no error.
C7_Scenario ==
  (/\ Built
   /\ status_global = PStr(S_Complete)
   /\ project_name = PStr(S_MyProj)
   /\ job_details = JobMain
   /\ error_global = None)
    => slack_msg = S_Complete \o <<" ", "[">> \o S_MyProj \o <<"]", " ">> \o S_Main
                   \o <<" ", "U+2192", " ">> \o S_outmov

\* The message differs from the one specified in the arrow alone: with the
\* arrow as the source spells it put for the one U+2192, the two are equal.
WithSourceArrow(text) ==
  LET arrows == {i \in 1..Len(text) : text[i] = "U+2192"}
  IN IF arrows = {} THEN text
     ELSE LET i == CHOOSE a \in arrows : \A b \in arrows : a <= b
          IN SubSeq(text, 1, i - 1) \o ArrowInSource \o SubSeq(text, i + 1, Len(text))

C7_MessageFormatUpToArrow == Built => slack_msg = WithSourceArrow(MessageAsSpecified)

\* The optional queries were the latest step of the run.
QueriesJustRan ==
  pc = "build" /\ Len(calls) > 0 /\ calls[Len(calls)].f = "optional queries"

\* C8: once a current project is obtained the run is not aborted by the
\* optional queries: a failing GetName gives "(unknown)", a failing or
\* fruitless job list or status query (or no job id) gives None, and the
\* message is built and both sinks are called.
C8_OptionalQueriesNeverAbort ==
  /\ QueriesJustRan =>
       /\ Did("GetName", "raises") => project_name = PStr(S_unknownProject)
       /\ (job_id.t = "None" \/ Did("GetRenderJobStatus", "raises")
             \/ Did("GetRenderJobStatus", "None")) => detailed_status = None
       /\ (job_id.t = "None" \/ Did("GetRenderJobList", "raises")
             \/ Did("GetRenderJobList", "None") \/ Did("GetRenderJobList", "no match"))
            => job_details = None
  /\ (pc = "Done" /\ Returned("current project", "obtained"))
       => /\ CalledWith("build_slack_message", slack_msg)
          /\ CalledWith("notify_slack", slack_msg)
          /\ CalledWith("notify_macos", slack_msg)

\* A run whose optional queries all failed and that built its message, but
\* ended in the construction of the Slack client, before notify_macos.
C8_Witness ==
  /\ pc = "Done"
  /\ Returned("current project", "obtained")
  /\ project_name = PStr(S_unknownProject)
  /\ job_id.t # "None" /\ detailed_status = None /\ job_details = None
  /\ CalledWith("notify_slack", slack_msg)
  /\ ~Called("notify_macos")

\* C8 up to the remote sink: as C8, with notify_macos left out.
C8_UpToRemoteSink ==
  /\ QueriesJustRan =>
       /\ Did("GetName", "raises") => project_name = PStr(S_unknownProject)
       /\ (job_id.t = "None" \/ Did("GetRenderJobStatus", "raises")
             \/ Did("GetRenderJobStatus", "None")) => detailed_status = None
       /\ (job_id.t = "None" \/ Did("GetRenderJobList", "raises")
             \/ Did("GetRenderJobList", "None") \/ Did("GetRenderJobList", "no match"))
            => job_details = None
  /\ (pc = "Done" /\ Returned("current project", "obtained"))
       => /\ CalledWith("build_slack_message", slack_msg)
          /\ CalledWith("notify_slack", slack_msg)
          /\ Returned("notify_slack", "client_raises") \/ CalledWith("notify_macos", slack_msg)

\* ensure_slack_sdk_installed was the latest step of the run.
DepsJustRan ==
  /\ Len(calls) > 0 /\ calls[Len(calls)].f = "ensure_slack_sdk_installed"
  /\ Len(io) > 0 /\ io[1].f = "import slack_sdk"

\* C9: ensure_slack_sdk_installed returns True exactly when the first
\* import succeeds, and then pip is not run, or pip exits with zero and the
\* second import succeeds; it returns False otherwise and never raises.
C9_SdkInstalledExactly ==
  DepsJustRan =>
    LET returned == calls[Len(calls)].r
        firstImport == io[1] = Ev("import slack_sdk", "ok")
        pipZero == Len(io) >= 2 /\ io[2] = Ev("pip", "zero")
        secondImport == Len(io) >= 3 /\ io[3] = Ev("import slack_sdk", "ok")
    IN /\ returned \in {"True", "False"}
       /\ returned = "True" <=> (firstImport \/ (pipZero /\ secondImport))
       /\ firstImport => (~Tried("pip") /\ ~Called("pip"))
       /\ (Did("pip", "nonzero") \/ Did("pip", "raises")) => returned = "False"
       /\ pc = (IF returned = "True" THEN "start" ELSE "Done")

C9_Witness ==
  /\ DepsJustRan
  /\ Did("pip", "zero")
  /\ io[3] = Ev("import slack_sdk", "ok")
  /\ calls[Len(calls)].r = "True"
  /\ pc = "start"

\* C10: a run leaves a configuration file that exists as it is; it writes
\* the file at most once, in its first step, only when there was none, and
\* what it writes is the template; every log file only grows, by lines
\* added at its end.
C10_ConfigNeverModified ==
  [][/\ (pc # "Done" /\ cfgFile.k # "absent") => (cfgFile' = cfgFile /\ cfgWrites' = cfgWrites)
     /\ (pc # "Done" /\ cfgWrites' # cfgWrites)
          => /\ pc = "main" /\ cfgFile.k = "absent" /\ cfgWrites = << >>
             /\ cfgWrites' = <<TemplateFile>>
     /\ (pc # "Done" /\ cfgFile' # cfgFile)
          => /\ cfgWrites' # cfgWrites
             /\ cfgFile' = TemplateFile \/ Did("write config", "dump_raises")'
     /\ \A d \in LogDirs : IsPrefix(logs[d], logs'[d])]_vars

C10_Witness ==
  /\ runs > 1
  /\ pc = "Done"
  /\ cfgFile = ObjectFile(Cfg(PStr(S_xoxbPadded), PStr(S_C01), PPath("~/Desktop")))
  /\ Called("notify_macos")
  /\ \E i, j \in 1..Len(logs[DesktopDir]) :
       i < j /\ logs[DesktopDir][i] < runs /\ logs[DesktopDir][j] = runs

====
